---- MODULE Spec2Model ----
(***************************************************************************)
(* Conversation state and request/response lifecycle of the chat App       *)
(* component (App: messages, isLoading, error, theme, aiRef, historyRef)   *)
(* together with the ChatInput draft and the Header theme toggle.          *)
(*                                                                         *)
(* JavaScript runs each handler to completion, so a handler up to its      *)
(* first await is one action, and the continuation after the await         *)
(* (resolved or rejected) is another.  React state is modelled by its      *)
(* committed value; the setMessages updaters are functional               *)
(* (prev => [...prev, m]) so they apply to the latest value.               *)
(***************************************************************************)
EXTENDS Integers, Sequences, FiniteSets, TLC

\* ------------------------------------------------------------------ bounds
\* Accepted sends are explored while the Message Store and the history
\* have room for a whole turn.
MaxMessages == 4

\* ------------------------------------------------------------- value sets
NULL == "<null>"
SP == " "

\* Input texts, as character sequences: empty, blank, plain, and padded.
Texts == { <<>>, <<SP>>, <<"a">>, <<SP, "a">>, <<"b", SP>> }

Replies == { "R1", "R2" }

WebA == [kind |-> "object", uri |-> "https://a.com", title |-> "A"]
WebB == [kind |-> "object", uri |-> "https://b.com", title |-> NULL]
WebNoUri == [kind |-> "object", uri |-> NULL, title |-> NULL]
WebUndefined == [kind |-> "undefined", uri |-> NULL, title |-> NULL]

\* response.candidates?.[0]?.groundingMetadata?.groundingChunks: absent, or
\* a list of chunks each with an optional web object.
ChunkLists ==
    { [present |-> FALSE, list |-> <<>>],
      [present |-> TRUE, list |-> <<>>],
      [present |-> TRUE, list |-> <<[web |-> WebA], [web |-> WebNoUri]>>],
      [present |-> TRUE, list |-> <<[web |-> WebUndefined], [web |-> WebB], [web |-> WebA]>>] }

Responses == [text : Replies, groundingChunks : ChunkLists]

InitFailureText == "Failed to initialize the AI model. Please check your API key."
FailureText == "Sorry, something went wrong. Please try again."

VARIABLES
    messages,      \* App state: Message Store
    isLoading,     \* App state
    error,         \* App state: lastError (NULL when none)
    theme,         \* App state
    localTheme,    \* localStorage.theme
    aiRef,         \* "client" or NULL
    historyRef,    \* historyRef.current: History Adapter
    inflight,      \* generateContent calls awaiting their result
    inputText,     \* ChatInput state: text
    lastOp         \* the handler that ran last, with its argument

vars == <<messages, isLoading, error, theme, localTheme, aiRef, historyRef,
          inflight, inputText, lastOp>>

\* ---------------------------------------------------------- pure helpers
IsWhiteSpace(c) == c = SP

RECURSIVE trimStart(_)
trimStart(s) ==
    IF s = <<>> THEN <<>>
    ELSE IF IsWhiteSpace(Head(s)) THEN trimStart(Tail(s)) ELSE s

RECURSIVE trimEnd(_)
trimEnd(s) ==
    IF s = <<>> THEN <<>>
    ELSE IF IsWhiteSpace(s[Len(s)]) THEN trimEnd(SubSeq(s, 1, Len(s) - 1)) ELSE s

\* Variant: whitespace is not stripped.
trim_Identity(s) == s

trim(s) == trimEnd(trimStart(s))

\* JavaScript truthiness of a string: the empty string is falsy.
Truthy(s) == s # <<>>

\* Message.sources is optional: only a reply built at line 148 carries it.
NoSources == [defined |-> FALSE, list |-> <<>>]
UserMessage(text) == [sender |-> "user", text |-> text, sources |-> NoSources]
AiMessage(text, sources) ==
    [sender |-> "ai", text |-> text, sources |-> [defined |-> TRUE, list |-> sources]]
ErrorMessage == [sender |-> "ai", text |-> FailureText, sources |-> NoSources]

\* Variant: the history entry carries the trimmed text.
UserContent_Trimmed(text) == [role |-> "user", parts |-> <<[text |-> trim(text)]>>]

UserContent(text) == [role |-> "user", parts |-> <<[text |-> text]>>]
\* Variant: the reply is recorded under a role the API does not use.
ModelContent_WrongRole(text) == [role |-> "assistant", parts |-> <<[text |-> text]>>]

ModelContent(text) == [role |-> "model", parts |-> <<[text |-> text]>>]

RemoveAt(s, i) == SubSeq(s, 1, i - 1) \o SubSeq(s, i + 1, Len(s))

\* groundingChunks?.map(chunk => chunk.web).filter(Boolean) ?? []
MapWeb(list) == [i \in 1..Len(list) |-> list[i].web]
IsTruthyWeb(w) == w.kind = "object"
ToSource(w) == [uri |-> w.uri, title |-> w.title]
ExtractSources(chunks) ==
    IF ~chunks.present THEN <<>>
    ELSE LET kept == SelectSeq(MapWeb(chunks.list), IsTruthyWeb)
         IN [i \in 1..Len(kept) |-> ToSource(kept[i])]

\* ------------------------------------------------------------------ Init
Init ==
    /\ messages = <<>>
    /\ isLoading = FALSE
    /\ aiRef \in {"client", NULL}
    /\ error = IF aiRef = NULL THEN InitFailureText ELSE NULL
    /\ theme \in {"light", "dark"}
    /\ localTheme = theme
    /\ historyRef = <<>>
    /\ inflight = <<>>
    /\ inputText = <<>>
    /\ lastOp = [op |-> "mount", arg |-> NULL]

\* --------------------------------------------------------------- actions
\* Variant: the in-flight check is missing.
SendGuard_NoLoadingCheck(text) == Truthy(trim(text))

\* if (!text.trim() || isLoading) return;
SendGuard(text) == Truthy(trim(text)) /\ ~isLoading

\* Room for one more whole turn.
HasRoom == Len(messages) + 2 <= MaxMessages /\ Len(historyRef) + 2 <= MaxMessages

\* Variant: a missing client is a hard precondition, the send is dropped.
SendEffect_BlocksWithoutClient(text) ==
    IF ~SendGuard(text) \/ aiRef = NULL
    THEN UNCHANGED <<messages, isLoading, error, historyRef, inflight>>
    ELSE /\ messages' = Append(messages, UserMessage(text))
         /\ isLoading' = TRUE
         /\ error' = NULL
         /\ historyRef' = Append(historyRef, UserContent(text))
         /\ inflight' = Append(inflight, [contents |-> historyRef'])

\* Variant: setError(null) is missing.
SendEffect_KeepsError(text) ==
    IF ~SendGuard(text)
    THEN UNCHANGED <<messages, isLoading, error, historyRef, inflight>>
    ELSE LET pushed == Append(historyRef, UserContent(text))
         IN IF aiRef = NULL
            THEN /\ messages' = Append(Append(messages, UserMessage(text)), ErrorMessage)
                 /\ isLoading' = FALSE
                 /\ error' = FailureText
                 /\ historyRef' = pushed
                 /\ inflight' = inflight
            ELSE /\ messages' = Append(messages, UserMessage(text))
                 /\ isLoading' = TRUE
                 /\ error' = error
                 /\ historyRef' = pushed
                 /\ inflight' = Append(inflight, [contents |-> pushed])

\* Variant: setIsLoading(true) is missing.
SendEffect_NoLoadingFlag(text) ==
    IF ~SendGuard(text)
    THEN UNCHANGED <<messages, isLoading, error, historyRef, inflight>>
    ELSE LET pushed == Append(historyRef, UserContent(text))
         IN IF aiRef = NULL
            THEN /\ messages' = Append(Append(messages, UserMessage(text)), ErrorMessage)
                 /\ isLoading' = FALSE
                 /\ error' = FailureText
                 /\ historyRef' = pushed
                 /\ inflight' = inflight
            ELSE /\ messages' = Append(messages, UserMessage(text))
                 /\ isLoading' = FALSE
                 /\ error' = NULL
                 /\ historyRef' = pushed
                 /\ inflight' = Append(inflight, [contents |-> pushed])

\* handleSendMessage up to its first await (or, without a client, to its end).
SendEffect(text) ==
    IF ~SendGuard(text)
    THEN UNCHANGED <<messages, isLoading, error, historyRef, inflight>>
    ELSE LET pushed == Append(historyRef, UserContent(text))
         IN IF aiRef = NULL
            THEN /\ messages' = Append(Append(messages, UserMessage(text)), ErrorMessage)
                 /\ isLoading' = FALSE
                 /\ error' = FailureText
                 /\ historyRef' = pushed
                 /\ inflight' = inflight
            ELSE /\ messages' = Append(messages, UserMessage(text))
                 /\ isLoading' = TRUE
                 /\ error' = NULL
                 /\ historyRef' = pushed
                 /\ inflight' = Append(inflight, [contents |-> pushed])

handleSendMessage(text) ==
    /\ SendGuard(text) => HasRoom
    /\ SendEffect(text)
    /\ lastOp' = [op |-> "handleSendMessage", arg |-> text]
    /\ UNCHANGED <<theme, localTheme, aiRef, inputText>>

\* ChatInput: onChange={(e) => setText(e.target.value)}
handleChange(text) ==
    /\ inputText' = text
    /\ lastOp' = [op |-> "handleChange", arg |-> text]
    /\ UNCHANGED <<messages, isLoading, error, theme, localTheme, aiRef,
                   historyRef, inflight>>

\* ChatInput: if (text.trim()) { onSendMessage(text); setText(''); }
SubmitGuard(text) == Truthy(trim(text))

handleSubmit ==
    /\ (SubmitGuard(inputText) /\ SendGuard(inputText)) => HasRoom
    /\ IF SubmitGuard(inputText)
       THEN SendEffect(inputText) /\ inputText' = <<>>
       ELSE UNCHANGED <<messages, isLoading, error, historyRef, inflight, inputText>>
    /\ lastOp' = [op |-> "handleSubmit", arg |-> inputText]
    /\ UNCHANGED <<theme, localTheme, aiRef>>

\* Variant: the reply is put in front of the store instead of at its end.
Resolve_Prepends(i, response) ==
    /\ i \in 1..Len(inflight)
    /\ historyRef' = Append(historyRef, ModelContent(response.text))
    /\ messages' = <<AiMessage(response.text,
                               ExtractSources(response.groundingChunks))>> \o messages
    /\ isLoading' = FALSE
    /\ inflight' = RemoveAt(inflight, i)
    /\ lastOp' = [op |-> "resolve", arg |-> response]
    /\ UNCHANGED <<error, theme, localTheme, aiRef, inputText>>

\* Variant: the reply is shown but never recorded in the history.
Resolve_NoHistoryPush(i, response) ==
    /\ i \in 1..Len(inflight)
    /\ messages' = Append(messages, AiMessage(response.text,
                                              ExtractSources(response.groundingChunks)))
    /\ isLoading' = FALSE
    /\ inflight' = RemoveAt(inflight, i)
    /\ lastOp' = [op |-> "resolve", arg |-> response]
    /\ UNCHANGED <<historyRef, error, theme, localTheme, aiRef, inputText>>

\* The awaited generateContent resolves: lines 142-153, then finally.
Resolve(i, response) ==
    /\ i \in 1..Len(inflight)
    /\ LET aiText == response.text
           sources == ExtractSources(response.groundingChunks)
       IN /\ historyRef' = Append(historyRef, ModelContent(aiText))
          /\ messages' = Append(messages, AiMessage(aiText, sources))
    /\ isLoading' = FALSE
    /\ inflight' = RemoveAt(inflight, i)
    /\ lastOp' = [op |-> "resolve", arg |-> response]
    /\ UNCHANGED <<error, theme, localTheme, aiRef, inputText>>

\* Variant: the catch block takes the unanswered user entry off the history.
Reject_DropsUnanswered(i) ==
    /\ i \in 1..Len(inflight)
    /\ error' = FailureText
    /\ messages' = Append(messages, ErrorMessage)
    /\ historyRef' = SubSeq(historyRef, 1, Len(historyRef) - 1)
    /\ isLoading' = FALSE
    /\ inflight' = RemoveAt(inflight, i)
    /\ lastOp' = [op |-> "reject", arg |-> NULL]
    /\ UNCHANGED <<theme, localTheme, aiRef, inputText>>

\* Variant: there is no finally block, so a failure leaves isLoading set.
Reject_NoFinally(i) ==
    /\ i \in 1..Len(inflight)
    /\ error' = FailureText
    /\ messages' = Append(messages, ErrorMessage)
    /\ inflight' = RemoveAt(inflight, i)
    /\ lastOp' = [op |-> "reject", arg |-> NULL]
    /\ UNCHANGED <<isLoading, theme, localTheme, aiRef, historyRef, inputText>>

\* Variant: the catch block also records a model entry in the history.
Reject_PushesHistory(i) ==
    /\ i \in 1..Len(inflight)
    /\ error' = FailureText
    /\ messages' = Append(messages, ErrorMessage)
    /\ historyRef' = Append(historyRef, ModelContent(FailureText))
    /\ isLoading' = FALSE
    /\ inflight' = RemoveAt(inflight, i)
    /\ lastOp' = [op |-> "reject", arg |-> NULL]
    /\ UNCHANGED <<theme, localTheme, aiRef, inputText>>

\* The awaited generateContent rejects: catch, then finally.
Reject(i) ==
    /\ i \in 1..Len(inflight)
    /\ error' = FailureText
    /\ messages' = Append(messages, ErrorMessage)
    /\ isLoading' = FALSE
    /\ inflight' = RemoveAt(inflight, i)
    /\ lastOp' = [op |-> "reject", arg |-> NULL]
    /\ UNCHANGED <<theme, localTheme, aiRef, historyRef, inputText>>

\* Variant: the clear forgets the Message Store.
ClearedMessages_Kept == messages

ClearedMessages == <<>>
\* Variant: the clear forgets the history.
ClearedHistory_Kept == historyRef

ClearedHistory == <<>>

\* Variant: the clear also resets the in-flight flag.
handleClearChat_ResetsLoading ==
    /\ messages' = ClearedMessages
    /\ historyRef' = ClearedHistory
    /\ isLoading' = FALSE
    /\ lastOp' = [op |-> "handleClearChat", arg |-> NULL]
    /\ UNCHANGED <<error, theme, localTheme, aiRef, inflight, inputText>>

handleClearChat ==
    /\ messages' = ClearedMessages
    /\ historyRef' = ClearedHistory
    /\ lastOp' = [op |-> "handleClearChat", arg |-> NULL]
    /\ UNCHANGED <<isLoading, error, theme, localTheme, aiRef, inflight, inputText>>

\* Header.toggleTheme, then the theme effect of App.
\* Variant: the toggle only ever switches to dark.
NextTheme_AlwaysDark(t) == "dark"

NextTheme(t) == IF t = "light" THEN "dark" ELSE "light"
PersistedTheme(t) == IF t = "dark" THEN "dark" ELSE "light"

toggleTheme ==
    /\ theme' = NextTheme(theme)
    /\ localTheme' = PersistedTheme(theme')
    /\ lastOp' = [op |-> "toggleTheme", arg |-> NULL]
    /\ UNCHANGED <<messages, isLoading, error, aiRef, historyRef, inflight, inputText>>

Next ==
    \/ \E text \in Texts : handleSendMessage(text)
    \/ \E text \in Texts : handleChange(text)
    \/ handleSubmit
    \/ \E i \in 1..Len(inflight), response \in Responses : Resolve(i, response)
    \/ \E i \in 1..Len(inflight) : Reject(i)
    \/ handleClearChat
    \/ toggleTheme

Spec == Init /\ [][Next]_vars

\* The one outstanding call returns or throws.
Complete ==
    \/ \E i \in 1..Len(inflight), response \in Responses : Resolve(i, response)
    \/ \E i \in 1..Len(inflight) : Reject(i)

\* The API call eventually returns or throws.
FairSpec == Spec /\ WF_vars(Complete)

TypeOK ==
    /\ isLoading \in BOOLEAN
    /\ error \in {NULL, InitFailureText, FailureText}
    /\ theme \in {"light", "dark"}
    /\ Len(messages) <= MaxMessages
    /\ Len(historyRef) <= MaxMessages


\* ------------------------------------------------------------ properties
\* The step just taken ran handleSendMessage on `text`: called directly, or
\* through handleSubmit, which passes the draft on when it is not blank.
IsBlank(text) == \A k \in 1..Len(text) : text[k] = " "

SendInvoked(text) ==
    \/ lastOp'.op = "handleSendMessage" /\ lastOp'.arg = text
    \/ lastOp'.op = "handleSubmit" /\ lastOp'.arg = text /\ ~IsBlank(text)

CountSender(msgs, who) == Cardinality({k \in 1..Len(msgs) : msgs[k].sender = who})
CountRole(hist, role) == Cardinality({k \in 1..Len(hist) : hist[k].role = role})

\* C1: a sendMessage invoked while isLoading is true issues no API call and
\* leaves the Message Store, the History Adapter, isLoading and lastError
\* unchanged, whatever the text.
C1_SendWhileLoadingIsNoop ==
    [][\A text \in Texts :
        (isLoading /\ SendInvoked(text)) =>
            UNCHANGED <<messages, historyRef, isLoading, error, inflight>>]_vars

\* A non-blank send was invoked during a request and dropped: the store still
\* ends with the user message of the turn in flight.
C1_Witness ==
    /\ lastOp.op = "handleSendMessage"
    /\ ~IsBlank(lastOp.arg)
    /\ isLoading
    /\ Len(inflight) = 1
    /\ Len(messages) = 1
    /\ messages[1].text # lastOp.arg

\* C2: at most one API request is outstanding in every reachable state, and
\* while a turn is in flight the only step that appends to the Message Store
\* or to the History Adapter is the completion of that turn.
C2_SingleFlight ==
    /\ [](Len(inflight) <= 1)
    /\ [][(inflight # <<>> /\ (Len(messages') > Len(messages)
                              \/ Len(historyRef') > Len(historyRef)))
            => inflight' = <<>>]_vars

\* A second turn is in flight after a first one has completed.
C2_Witness ==
    /\ Len(inflight) = 1
    /\ Len(messages) = 3
    /\ messages[2].sender = "ai"
    /\ lastOp.op = "handleSubmit"

\* C3: a sendMessage whose text is empty after trimming issues no API call
\* and leaves the Message Store, the History Adapter and isLoading unchanged.
C3_BlankSendIsNoop ==
    [][\A text \in Texts :
        (IsBlank(text)
         /\ \/ lastOp'.op = "handleSendMessage" /\ lastOp'.arg = text
            \/ lastOp'.op = "handleSubmit" /\ lastOp'.arg = text) =>
            UNCHANGED <<messages, historyRef, isLoading, inflight>>]_vars

\* A whitespace-only send was invoked on an idle session holding a turn.
C3_Witness ==
    /\ lastOp.op = "handleSendMessage"
    /\ lastOp.arg = <<SP>>
    /\ ~isLoading
    /\ Len(messages) = 2

\* C4: an accepted send (text not blank, nothing in flight) appends exactly
\* one user entry with the text as given to the Message Store and to the
\* History Adapter; when it issues the API call, isLoading is true and the
\* call is made with the history that already ends with that entry.
C4_AcceptedSendAppendsUserEntry ==
    [][\A text \in Texts :
        (~IsBlank(text) /\ ~isLoading /\ SendInvoked(text)) =>
            /\ historyRef' = Append(historyRef, [role |-> "user", parts |-> <<[text |-> text]>>])
            /\ CountRole(historyRef', "user") = CountRole(historyRef, "user") + 1
            /\ SubSeq(messages', 1, Len(messages) + 1) = Append(messages, UserMessage(text))
            /\ CountSender(messages', "user") = CountSender(messages, "user") + 1
            /\ IF aiRef = NULL
               THEN inflight' = inflight
               ELSE /\ messages' = Append(messages, UserMessage(text))
                    /\ isLoading'
                    /\ inflight' = Append(inflight, [contents |-> historyRef'])]_vars

\* A padded text was accepted and its request is in flight.
C4_Witness ==
    /\ lastOp.op = "handleSendMessage"
    /\ lastOp.arg = <<SP, "a">>
    /\ Len(inflight) = 1
    /\ isLoading
    /\ messages = <<UserMessage(<<SP, "a">>)>>
    /\ historyRef = <<UserContent(<<SP, "a">>)>>

\* The step just taken was a failing turn: the pending call rejected, or an
\* accepted send found no client.
FailedWithoutClient(text) ==
    aiRef = NULL /\ ~IsBlank(text) /\ ~isLoading /\ SendInvoked(text)

\* C5: a failing turn appends exactly one assistant message with the fixed
\* failure text to the Message Store, sets lastError to that text, appends
\* nothing to the History Adapter beyond the turn's own user entry, and
\* leaves isLoading false.
C5_FailureOutcome ==
    [][/\ lastOp'.op = "reject" =>
            /\ messages' = Append(messages, ErrorMessage)
            /\ ErrorMessage.text = "Sorry, something went wrong. Please try again."
            /\ error' = ErrorMessage.text
            /\ historyRef' = historyRef
            /\ ~isLoading'
       /\ \A text \in Texts : FailedWithoutClient(text) =>
            /\ messages' = Append(Append(messages, UserMessage(text)), ErrorMessage)
            /\ error' = ErrorMessage.text
            /\ historyRef' = Append(historyRef, UserContent(text))
            /\ ~isLoading']_vars

\* A request was rejected: the failure message stands alone after the user
\* message and the history holds only the unanswered user entry.
C5_Witness ==
    /\ lastOp.op = "reject"
    /\ aiRef # NULL
    /\ Len(messages) = 2
    /\ messages[2] = ErrorMessage
    /\ error = FailureText
    /\ Len(historyRef) = 1
    /\ ~isLoading

\* C6: from an empty session, M1 sent, answered by R1, then M2 sent: while
\* M2 is in flight the Message Store is [user M1, ai R1, user M2] and the
\* History Adapter is [(user,M1), (model,R1), (user,M2)], of length 3.
C6_RoundTrip ==
    \A m1, m2 \in Texts : \A r \in Responses :
        (/\ isLoading
         /\ messages = <<UserMessage(m1),
                         AiMessage(r.text, ExtractSources(r.groundingChunks)),
                         UserMessage(m2)>>)
        => /\ Len(historyRef) = 3
           /\ historyRef = <<[role |-> "user", parts |-> <<[text |-> m1]>>],
                             [role |-> "model", parts |-> <<[text |-> r.text]>>],
                             [role |-> "user", parts |-> <<[text |-> m2]>>]>>
           /\ inflight = <<[contents |-> historyRef]>>

\* M1 = "a", R1, M2 = "b " with M2's request in flight.
C6_Witness ==
    /\ isLoading
    /\ Len(inflight) = 1
    /\ Len(messages) = 3
    /\ messages[1] = UserMessage(<<"a">>)
    /\ messages[2].sender = "ai" /\ messages[2].text = "R1"
    /\ messages[3] = UserMessage(<<"b", SP>>)
    /\ Len(historyRef) = 3

\* C7: clearSession leaves the Message Store and the History Adapter empty
\* and leaves theme unchanged, in whatever state it is invoked.
C7_ClearEmptiesBoth ==
    [][lastOp'.op = "handleClearChat" =>
        /\ messages' = <<>>
        /\ historyRef' = <<>>
        /\ theme' = theme /\ localTheme' = localTheme]_vars

\* The session was cleared after a completed turn and while idle.
C7_Witness ==
    /\ lastOp.op = "handleClearChat"
    /\ messages = <<>>
    /\ historyRef = <<>>
    /\ ~isLoading
    /\ error = FailureText

\* Completed turns, as the store shows them: every assistant entry, reply or
\* failure substitute, completes one.
CompletedTurns == CountSender(messages, "ai")
IsReply(m) == m.sender = "ai" /\ m.sources.defined
CountReplies(msgs) == Cardinality({k \in 1..Len(msgs) : IsReply(msgs[k])})

\* C8 (as stated): the History Adapter holds two entries per completed turn,
\* plus at most one trailing user entry while a request is in flight.
C8_HistoryTwicePerTurn ==
    LET extra == Len(historyRef) - 2 * CompletedTurns
    IN extra = 0 \/ (extra = 1 /\ inflight # <<>>)

\* C8 (amended): the History Adapter holds one entry per user message of the
\* Message Store and one per assistant reply in it; a failure substitute has
\* no history entry.
C8_HistoryCountsUsersAndReplies ==
    /\ Len(historyRef) = CountSender(messages, "user") + CountReplies(messages)
    /\ CountRole(historyRef, "user") = CountSender(messages, "user")
    /\ CountRole(historyRef, "model") = CountReplies(messages)

\* A failed turn followed by an answered one: three history entries for two
\* completed turns.
C8_Witness ==
    /\ Len(messages) = 4
    /\ messages[2] = ErrorMessage
    /\ IsReply(messages[4])
    /\ Len(historyRef) = 3
    /\ aiRef # NULL

\* The citations of a response that carry a URI, in their order.
HasUri(w) == w.kind = "object" /\ w.uri # NULL
CitationsWithUri(chunks) ==
    IF ~chunks.present THEN <<>>
    ELSE LET kept == SelectSeq(MapWeb(chunks.list), HasUri)
         IN [i \in 1..Len(kept) |-> [uri |-> kept[i].uri, title |-> kept[i].title]]

\* C9: the sources of the assistant message appended for a successful
\* response are the response's citations in order, those without a URI
\* discarded; no citation list gives no sources.
C9_SourcesDropMissingUri ==
    [][lastOp'.op = "resolve" =>
        LET m == messages'[Len(messages')]
        IN /\ m.sources.defined
           /\ m.sources.list = CitationsWithUri(lastOp'.arg.groundingChunks)]_vars

\* C10: a request in flight is eventually over with isLoading false, and
\* whenever no request is outstanding isLoading is false.
C10_LoadingEnds ==
    /\ isLoading ~> ~isLoading
    /\ [](inflight = <<>> => ~isLoading)

\* A request has completed and the session is idle again.
C10_Witness ==
    /\ lastOp.op \in {"resolve", "reject"}
    /\ inflight = <<>>
    /\ ~isLoading
    /\ Len(messages) = 2

\* C11: when the client could not be constructed, every accepted send fails
\* the same way: no API call is issued, the user message and the fixed
\* failure message are appended, lastError is the failure text and isLoading
\* is false afterwards; the send is carried out, not refused.
C11_NoClientEverySendFails ==
    /\ [](aiRef = NULL => (inflight = <<>> /\ ~isLoading))
    /\ [][\A text \in Texts :
            (aiRef = NULL /\ ~IsBlank(text) /\ SendInvoked(text)) =>
                /\ Len(messages') = Len(messages) + 2
                /\ messages'[Len(messages') - 1].sender = "user"
                /\ messages'[Len(messages') - 1].text = text
                /\ messages'[Len(messages')].sender = "ai"
                /\ messages'[Len(messages')].text = FailureText
                /\ error' = FailureText
                /\ inflight' = <<>>
                /\ ~isLoading']_vars

\* Two sends in a row on a session without a client, both failed.
C11_Witness ==
    /\ aiRef = NULL
    /\ Len(messages) = 4
    /\ messages[2] = ErrorMessage
    /\ messages[4] = ErrorMessage
    /\ messages[1].text # messages[3].text
    /\ error = FailureText
    /\ ~isLoading

SameMessage(a, b) == a.sender = b.sender /\ a.sources = b.sources /\ a.text = b.text
SameContent(a, b) ==
    /\ a.role = b.role
    /\ Len(a.parts) = Len(b.parts)
    /\ \A k \in 1..Len(a.parts) : a.parts[k].text = b.parts[k].text

\* Every entry of `old` is still in `new`, at its position and unaltered.
MessagesKept(old, new) ==
    Len(old) <= Len(new) /\ \A k \in 1..Len(old) : SameMessage(old[k], new[k])
HistoryKept(old, new) ==
    Len(old) <= Len(new) /\ \A k \in 1..Len(old) : SameContent(old[k], new[k])

\* C12: between clears the Message Store and the History Adapter only grow
\* at the end: every step leaves each of them unchanged, extends it keeping
\* the entries it had, or, in a clearSession, empties it.
C12_AppendOnly ==
    [][/\ \/ MessagesKept(messages, messages')
          \/ lastOp'.op = "handleClearChat" /\ messages' = <<>>
       /\ \/ HistoryKept(historyRef, historyRef')
          \/ lastOp'.op = "handleClearChat" /\ historyRef' = <<>>]_vars

\* Two answered turns, appended in order to both sequences.
C12_Witness ==
    /\ lastOp.op = "resolve"
    /\ Len(messages) = 4
    /\ Len(historyRef) = 4
    /\ messages[1].sender = "user" /\ messages[2].sender = "ai"
    /\ messages[3].sender = "user" /\ messages[4].sender = "ai"
    /\ messages[2].text # messages[4].text

OtherTheme(t) == IF t = "dark" THEN "light" ELSE "dark"

\* C13: a toggle switches the theme to the other one and persists it, so the
\* persisted value equals the theme after every toggle, and a second toggle
\* gives back the theme and the persisted value the first one started from.
C13_ToggleTwiceRestores ==
    [][lastOp'.op = "toggleTheme" =>
        /\ theme' = OtherTheme(theme)
        /\ localTheme' = theme'
        /\ localTheme = theme
        /\ NextTheme(theme') = theme
        /\ PersistedTheme(NextTheme(theme')) = localTheme]_vars

\* The theme was toggled while a request was in flight.
C13_Witness ==
    /\ lastOp.op = "toggleTheme"
    /\ localTheme = theme
    /\ isLoading
    /\ Len(inflight) = 1

\* Entry-by-entry descriptions of a store or history entry.
IsUserEntry(m, text) == m.sender = "user" /\ m.text = text
IsFailureEntry(m) == m.sender = "ai" /\ ~m.sources.defined /\ m.text = FailureText
IsReplyEntry(m, text) == m.sender = "ai" /\ m.sources.defined /\ m.text = text
IsUserContent(h, text) ==
    h.role = "user" /\ Len(h.parts) = 1 /\ h.parts[1].text = text
IsModelContent(h, text) ==
    h.role = "model" /\ Len(h.parts) = 1 /\ h.parts[1].text = text

\* A non-blank send issued now would be carried out, not dropped.
AcceptsSend == \A text \in Texts : ~IsBlank(text) => SendGuard(text)

\* C14 (as stated): clearSession leaves lastError unchanged and the session
\* accepts a non-blank send right after it, in whatever state it is invoked.
C14_ClearAllowsNewSends ==
    [][lastOp'.op = "handleClearChat" => (error' = error /\ AcceptsSend')]_vars

\* C14 (amended): clearSession leaves lastError, isLoading and the pending
\* request unchanged; a non-blank send right after it is accepted exactly
\* when no request is in flight.
C14_ClearKeepsErrorAndFlight ==
    [][lastOp'.op = "handleClearChat" =>
        /\ error' = error
        /\ isLoading' = isLoading
        /\ inflight' = inflight
        /\ AcceptsSend' <=> (inflight' = <<>>)]_vars

\* The session was cleared while a request was in flight.
C14_Witness ==
    /\ lastOp.op = "handleClearChat"
    /\ messages = <<>>
    /\ isLoading
    /\ Len(inflight) = 1
    /\ error = NULL

\* The step just taken was a failing turn.
TurnFailed ==
    \/ lastOp'.op = "reject"
    \/ \E text \in Texts : aiRef = NULL /\ ~IsBlank(text) /\ ~isLoading /\ SendInvoked(text)

\* C15: lastError is empty whenever a request is in flight, it becomes
\* non-empty only in the step in which a turn fails, and the step that
\* completes a turn successfully leaves it empty.
C15_NoErrorWhileLoading ==
    /\ [](isLoading => error = NULL)
    /\ [][/\ (error = NULL /\ error' # NULL) => TurnFailed
          /\ lastOp'.op = "resolve" => error' = NULL]_vars

\* A failed turn left lastError set, and the next, answered, turn cleared it.
C15_Witness ==
    /\ lastOp.op = "resolve"
    /\ Len(messages) = 4
    /\ IsUserEntry(messages[1], <<"a">>)
    /\ IsFailureEntry(messages[2])
    /\ IsReplyEntry(messages[4], "R1")
    /\ error = NULL
    /\ ~isLoading

\* C16: M1 failed, then M2 was sent and answered by R2 with no clear in
\* between: M2's call was made with [(user,M1), (user,M2)] and the History
\* Adapter ends as [(user,M1), (user,M2), (model,R2)].
C16_FailedTurnStaysInHistory ==
    \A m1, m2 \in Texts :
        (/\ Len(messages) >= 3
         /\ IsUserEntry(messages[1], m1)
         /\ IsFailureEntry(messages[2])
         /\ IsUserEntry(messages[3], m2))
        => /\ (Len(messages) = 3 /\ isLoading) =>
                /\ Len(historyRef) = 2
                /\ IsUserContent(historyRef[1], m1)
                /\ IsUserContent(historyRef[2], m2)
                /\ inflight = <<[contents |-> historyRef]>>
           /\ \A r \in Replies :
                (Len(messages) = 4 /\ IsReplyEntry(messages[4], r)) =>
                    /\ Len(historyRef) = 3
                    /\ IsUserContent(historyRef[1], m1)
                    /\ IsUserContent(historyRef[2], m2)
                    /\ IsModelContent(historyRef[3], r)

\* M1 = "a" failed, M2 = " a" was answered by R2.
C16_Witness ==
    /\ lastOp.op = "resolve"
    /\ Len(messages) = 4
    /\ IsUserEntry(messages[1], <<"a">>)
    /\ IsFailureEntry(messages[2])
    /\ IsUserEntry(messages[3], <<SP, "a">>)
    /\ IsReplyEntry(messages[4], "R2")
    /\ Len(historyRef) = 3

\* C17: the Message Store alternates user, assistant, user, assistant, ...
\* starting with a user message.
C17_StoreAlternates ==
    \A k \in 1..Len(messages) :
        messages[k].sender = (IF k % 2 = 1 THEN "user" ELSE "ai")

UserTexts(msgs) ==
    LET IsUser(m) == m.sender = "user"
        kept == SelectSeq(msgs, IsUser)
    IN [k \in 1..Len(kept) |-> kept[k].text]

HistoryUserTexts(hist) ==
    LET IsUser(h) == h.role = "user"
        kept == SelectSeq(hist, IsUser)
    IN [k \in 1..Len(kept) |-> kept[k].parts[1].text]

\* C18: the user texts of the History Adapter are the user texts of the
\* Message Store, in the same order, and the History Adapter never holds
\* two model entries in a row.
C18_UserTextsAgree ==
    /\ HistoryUserTexts(historyRef) = UserTexts(messages)
    /\ \A k \in 1..(Len(historyRef) - 1) :
        ~(historyRef[k].role = "model" /\ historyRef[k + 1].role = "model")

\* A reply landed in a cleared session and a further turn was answered: the
\* history is [model, user, model].
C18_Witness ==
    /\ Len(historyRef) = 3
    /\ historyRef[1].role = "model"
    /\ historyRef[2].role = "user"
    /\ historyRef[3].role = "model"
    /\ Len(messages) = 3

====
